---- MODULE Spec2Model ----
(***************************************************************************)
(* Smoothed-aggregation AMG hierarchy construction:                        *)
(*   cusp/precond/aggregation/detail/smoothed_aggregation.inl              *)
(* sa_initialize and extend_hierarchy are modelled statement by statement. *)
(* Matrices are abstracted to their shape (num_rows, num_cols,             *)
(* num_entries), their storage format and a content tag (kind, src, gen)   *)
(* that tells apart operators of equal shape.                              *)
(***************************************************************************)
EXTENDS Integers, Sequences, FiniteSets, TLC

\* ------------------------------------------------------------------ bounds
MaxRows == 4
MaxMinLevelSize == 2
MaxMaxLevels == 3
MaxBuilds == 2

\* the distinct caller matrices of one shape, the values of a caller's
\* candidate vector, and the unknowns per aggregate the aggregation
\* strategy may be configured with (1: the operator never gets smaller)
Sources == {1, 2}
CandidateValues == {1, 2}
Ratios == {1, 2}

VARIABLES
    opts,      \* sa_options: min_level_size, max_levels, the strategies, the formats
    sa,        \* the smoothed_aggregation object (with its multilevel Parent)
    pc,        \* position of the thread of control inside sa_initialize
    fr,        \* arguments and locals of sa_initialize / extend_hierarchy
    calls,     \* strategies invoked by the current build, in order
    failure,   \* the strategy whose failure the caller observed, or "none"
    installs,  \* the install statements the current build has executed
    reallocs,  \* appends of the current build that outgrew the capacity of levels
    builds     \* number of sa_initialize calls made on the object

vars == <<opts, sa, pc, fr, calls, failure, installs, reallocs, builds>>

\* ---------------------------------------------------------------- matrices
SetupFormat == "setup"

SolveFormat == IF opts.same_format THEN SetupFormat ELSE "solve"

Matrix(format, num_rows, num_cols, num_entries, kind, src, gen) ==
    [format |-> format, num_rows |-> num_rows, num_cols |-> num_cols,
     num_entries |-> num_entries, kind |-> kind, src |-> src, gen |-> gen]

EmptyMatrix(format) == Matrix(format, 0, 0, 0, "empty", 0, 0)

\* what a matrix holds, whatever its storage format
Content(M) == [num_rows |-> M.num_rows, num_cols |-> M.num_cols,
               num_entries |-> M.num_entries, kind |-> M.kind,
               src |-> M.src, gen |-> M.gen]

\* dst = src across formats: the contents of src in the format of dst
Convert(M, format) == [M EXCEPT !.format = format]

\* CooView A_(A): a coordinate view of the caller's matrix
CooView(A) == [A EXCEPT !.format = "coo"]

\* matrix_base::resize: the dimensions only, storage untouched
BaseResize(M, A) ==
    [M EXCEPT !.num_rows = A.num_rows, !.num_cols = A.num_cols,
              !.num_entries = A.num_entries]

Zeros(n) == [i \in 1..n |-> 0]

\* ------------------------------------------------- levels, smoother, solver
NoSmoother == [bound |-> FALSE, A |-> EmptyMatrix("none")]

SmootherType(A) == [bound |-> TRUE, A |-> A]

NoSolver == [bound |-> FALSE, A |-> EmptyMatrix("none")]

SolverType(A) == [bound |-> TRUE, A |-> A]

\* typename Parent::level()
DefaultLevel ==
    [A |-> EmptyMatrix(SolveFormat), R |-> EmptyMatrix(SolveFormat),
     P |-> EmptyMatrix(SolveFormat), residual |-> <<>>, x |-> <<>>, b |-> <<>>,
     smoother |-> NoSmoother]

\* sa_level<SetupMatrixType>()
DefaultSaLevel ==
    [A_ |-> EmptyMatrix(SetupFormat), aggregates |-> <<>>, B |-> <<>>,
     rho_DinvA |-> 0]

\* a freshly constructed object, before any sa_initialize
FreshObject ==
    [sa_levels |-> <<>>, levels |-> <<>>, solver |-> NoSolver,
     num_rows |-> 0, num_cols |-> 0, num_entries |-> 0, capacity |-> 0]

EmptyFrame ==
    [A |-> EmptyMatrix("input"), B |-> <<>>, first |-> FALSE,
     curA |-> EmptyMatrix(SetupFormat), C |-> EmptyMatrix(SetupFormat),
     aggregates |-> <<>>, T |-> EmptyMatrix(SetupFormat),
     P |-> EmptyMatrix(SetupFormat), B_coarse |-> <<>>,
     R |-> EmptyMatrix(SetupFormat), RAP |-> EmptyMatrix(SetupFormat),
     lvl |-> 0]

\* ---------------------------------------------------------------- inputs
\* the caller's operators: square, of 0..MaxRows unknowns
InputMatrices ==
    { Matrix("input", n, n, n, "in", s, 0) : n \in 0..MaxRows, s \in Sources }

\* line 77: cusp::constant_array<ValueType> B(A.num_rows, 1)
constant_array(n, v) == [i \in 1..n |-> v]

\* the candidate vectors for A, of length A.num_rows: the all-ones vector of
\* sa_initialize(A), or one the caller supplies
InputCandidates(A) ==
    { constant_array(A.num_rows, v) : v \in CandidateValues \cup {1} }

Options ==
    [min_level_size : 0..MaxMinLevelSize, max_levels : 1..MaxMaxLevels,
     ratio : Ratios, same_format : BOOLEAN]

\* ------------------------------------------------------------- strategies
\* The six strategy objects of sa_options; their code is outside this
\* component, so each is modelled by its call contract: a deterministic
\* function of its inputs that returns outputs of conforming shape.

\* strength_of_connection(A, C): C has the shape of A
strength_of_connection(A) ==
    Matrix(SetupFormat, A.num_rows, A.num_cols, A.num_entries, "C", A.src, A.gen)

\* aggregate(C, aggregates): fills the array it is given, opts.ratio unknowns
\* to an aggregate
aggregate(C, aggregates) ==
    [i \in 1..Len(aggregates) |-> (i - 1) \div opts.ratio]

\* number of aggregates named by an aggregate map
NumAggregates(aggregates) ==
    Cardinality({ aggregates[i] : i \in 1..Len(aggregates) })

RECURSIVE SumOver(_, _)
SumOver(B, S) ==
    IF S = {} THEN 0
    ELSE LET i == CHOOSE j \in S : TRUE
         IN (IF i \in 1..Len(B) THEN B[i] ELSE 0) + SumOver(B, S \ {i})

\* fit_candidates(aggregates, B, T, B_coarse): the tentative prolongator
\* and the coarse candidate vector
fit_candidates_T(aggregates, B) ==
    Matrix(SetupFormat, Len(aggregates), NumAggregates(aggregates),
           Len(aggregates), "T", 0, 0)

fit_candidates_B(aggregates, B) ==
    [j \in 1..NumAggregates(aggregates) |->
        SumOver(B, { i \in 1..Len(aggregates) : aggregates[i] = j - 1 })]

\* smooth_prolongator(A, T, P, rho_DinvA)
smooth_prolongator_P(A, T) ==
    Matrix(SetupFormat, T.num_rows, T.num_cols, T.num_entries, "P", A.src, A.gen)

smooth_prolongator_rho(A, T) == A.gen + 1

\* form_restriction(P, R): the transpose of P
form_restriction(P) ==
    Matrix(SetupFormat, P.num_cols, P.num_rows, P.num_entries, "R", P.src, P.gen)

\* galerkin_product(R, A, P, RAP)
galerkin_product(R, A, P) ==
    Matrix(SetupFormat, R.num_rows, P.num_cols, R.num_rows * P.num_cols,
           "RAP", A.src, A.gen + 1)

\* ---------------------------------------------------- container operations
Back(s) == s[Len(s)]

\* std::vector::resize(0)
Resize0(s) == <<>>

\* Parent::levels.reserve(n)
Reserve(s, n) == [s EXCEPT !.capacity = IF n > @ THEN n ELSE @]

\* whether Parent::levels.push_back must reallocate
MustReallocate(s) == Len(s.levels) >= s.capacity

\* Parent::levels.push_back(typename Parent::level())
LevelsPushBack(s) ==
    [s EXCEPT !.levels = Append(@, DefaultLevel),
              !.capacity = IF MustReallocate(s)
                           THEN (IF @ = 0 THEN 1 ELSE 2 * @) ELSE @]

\* detail::setup_level_matrix(dst, src): <<dst, src>> after the call; a swap
\* when both have the same type, a converting assignment otherwise
setup_level_matrix(dst, src) ==
    IF opts.same_format THEN <<src, dst>>
    ELSE <<Convert(src, dst.format), src>>

\* --------------------------------------------------------- sa_initialize
\* The machine state the steps transform.
Machine ==
    [sa |-> sa, pc |-> pc, fr |-> fr, calls |-> calls, failure |-> failure,
     installs |-> installs, reallocs |-> reallocs]

Set(m) ==
    /\ sa' = m.sa
    /\ pc' = m.pc
    /\ fr' = m.fr
    /\ calls' = m.calls
    /\ failure' = m.failure
    /\ installs' = m.installs
    /\ reallocs' = m.reallocs

\* variant of ResetLevels: the solver-facing levels are not discarded
ResetLevels_KeepsSolverLevels(s) ==
    IF Len(s.sa_levels) > 0
    THEN [s EXCEPT !.sa_levels = Resize0(@)]
    ELSE s

\* lines 90-94: discard the levels of an earlier build
ResetLevels(s) ==
    IF Len(s.sa_levels) > 0
    THEN [s EXCEPT !.sa_levels = Resize0(@), !.levels = Resize0(@)]
    ELSE s

\* line 96: Parent::resize
ParentResize(s, A) ==
    [s EXCEPT !.num_rows = A.num_rows, !.num_cols = A.num_cols,
              !.num_entries = A.num_entries]

\* lines 90-101: reset, reserve, level 0 and its level record
sa_initialize_setup(m, A, B) ==
    LET s1 == Reserve(ParentResize(ResetLevels(m.sa), A), opts.max_levels)
        s2 == LevelsPushBack(s1)
        s3 == [s2 EXCEPT !.sa_levels = Append(@, [DefaultSaLevel EXCEPT !.B = B])]
    IN [sa |-> s3, pc |-> "L104",
        fr |-> [EmptyFrame EXCEPT !.A = A, !.B = B],
        calls |-> <<>>, failure |-> "none", installs |-> {},
        reallocs |-> IF MustReallocate(s1) THEN 1 ELSE 0]

\* variant of FirstLevelCoarsens: >= in place of >
FirstLevelCoarsens_OffByOne(m) == m.fr.A.num_rows >= opts.min_level_size

\* line 104: the test guarding the first coarsening step
FirstLevelCoarsens(m) == m.fr.A.num_rows > opts.min_level_size

\* lines 104-107: enter extend_hierarchy(A_) or skip to the loop
first_level_test(m) ==
    IF FirstLevelCoarsens(m)
    THEN [m EXCEPT !.pc = "L143", !.fr.curA = CooView(m.fr.A), !.fr.first = TRUE]
    ELSE [m EXCEPT !.pc = "L113"]

\* lines 113-114: the continue-coarsening test
ContinueCoarsening(m) ==
    /\ Back(m.sa.sa_levels).A_.num_rows > opts.min_level_size
    /\ Len(m.sa.sa_levels) < opts.max_levels

\* lines 113-115: enter extend_hierarchy(sa_levels.back().A_) or leave the loop
coarsen_loop_test(m) ==
    IF ContinueCoarsening(m)
    THEN [m EXCEPT !.pc = "L143", !.fr.curA = Back(m.sa.sa_levels).A_,
                   !.fr.first = FALSE]
    ELSE [m EXCEPT !.pc = "L118"]

\* ------------------------------------------------------- extend_hierarchy
\* variant of Throw: sa_initialize catches the failure and goes on to
\* install the coarse solver
Throw_Caught(m, strategy) ==
    [m EXCEPT !.pc = "L118", !.failure = strategy,
              !.calls = Append(@, strategy),
              !.fr = [EmptyFrame EXCEPT !.A = m.fr.A, !.B = m.fr.B]]

\* a strategy signals failure: the exception leaves extend_hierarchy and
\* sa_initialize (neither catches), destroying their locals
Throw(m, strategy) ==
    [m EXCEPT !.pc = "failed", !.failure = strategy,
              !.calls = Append(@, strategy),
              !.fr = [EmptyFrame EXCEPT !.A = m.fr.A, !.B = m.fr.B]]

Invoked(m, strategy) == [m EXCEPT !.calls = Append(@, strategy)]

\* variant of do_strength_of_connection: the aggregates are resized but
\* the fill of line 147 is missing, leaving values other than 0
do_strength_of_connection_NoFill(m) ==
    LET C == strength_of_connection(m.fr.curA)
    IN [Invoked(m, "strength_of_connection") EXCEPT
            !.pc = "L148", !.fr.C = C,
            !.fr.aggregates = [i \in 1..C.num_rows |-> 1]]

\* lines 142-147: C = strength_of_connection(A); aggregates sized and zeroed
do_strength_of_connection(m) ==
    LET C == strength_of_connection(m.fr.curA)
    IN [Invoked(m, "strength_of_connection") EXCEPT
            !.pc = "L148", !.fr.C = C, !.fr.aggregates = Zeros(C.num_rows)]

\* lines 148-149: aggregate(C, aggregates); C goes out of scope
do_aggregate(m) ==
    [Invoked(m, "aggregate") EXCEPT
        !.pc = "L156", !.fr.aggregates = aggregate(m.fr.C, m.fr.aggregates),
        !.fr.C = EmptyMatrix(SetupFormat)]

\* lines 151-156: fit_candidates(aggregates, sa_levels.back().B, T, B_coarse)
do_fit_candidates(m) ==
    LET B == Back(m.sa.sa_levels).B
    IN [Invoked(m, "fit_candidates") EXCEPT
            !.pc = "L159", !.fr.T = fit_candidates_T(m.fr.aggregates, B),
            !.fr.B_coarse = fit_candidates_B(m.fr.aggregates, B)]

\* lines 159-160: smooth_prolongator(A, T, P, sa_levels.back().rho_DinvA)
do_smooth_prolongator(m) ==
    LET n == Len(m.sa.sa_levels)
    IN [Invoked(m, "smooth_prolongator") EXCEPT
            !.pc = "L164", !.fr.P = smooth_prolongator_P(m.fr.curA, m.fr.T),
            !.sa.sa_levels[n].rho_DinvA = smooth_prolongator_rho(m.fr.curA, m.fr.T),
            !.fr.T = EmptyMatrix(SetupFormat)]

\* lines 163-164: form_restriction(P, R)
do_form_restriction(m) ==
    [Invoked(m, "form_restriction") EXCEPT
        !.pc = "L168", !.fr.R = form_restriction(m.fr.P)]

\* lines 167-168: galerkin_product(R, A, P, RAP)
do_galerkin_product(m) ==
    [Invoked(m, "galerkin_product") EXCEPT
        !.pc = "L171", !.fr.RAP = galerkin_product(m.fr.R, m.fr.curA, m.fr.P)]

\* variant of AppendSaLevel: the aggregates are swapped in after the
\* push_back, onto the new level record
AppendSaLevel_AggregatesOnNewLevel(s, f) ==
    [s EXCEPT !.sa_levels =
        Append(@, [DefaultSaLevel EXCEPT !.A_ = f.RAP, !.B = f.B_coarse,
                                         !.aggregates = f.aggregates])]

\* lines 171-174: the aggregates go to the last level record, then a new
\* level record takes RAP and B_coarse
AppendSaLevel(s, f) ==
    LET n == Len(s.sa_levels)
        withAgg == [s.sa_levels EXCEPT ![n].aggregates = f.aggregates]
    IN [s EXCEPT !.sa_levels =
            Append(withAgg, [DefaultSaLevel EXCEPT !.A_ = f.RAP, !.B = f.B_coarse])]

\* lines 176-178: R, P and the residual buffer go to the last solver level
StoreTransfer(s, f) ==
    LET n == Len(s.levels)
    IN [s EXCEPT !.levels[n].R = setup_level_matrix(s.levels[n].R, f.R)[1],
                 !.levels[n].P = setup_level_matrix(s.levels[n].P, f.P)[1],
                 !.levels[n].residual = Zeros(f.curA.num_rows)]

\* variant of AppendLevel: x and b sized to the operator that was coarsened
AppendLevel_FineRows(s) ==
    LET t == LevelsPushBack(s)
        n == Len(t.levels)
        rows == Len(t.levels[n - 1].residual)
    IN [t EXCEPT !.levels[n].x = Zeros(rows), !.levels[n].b = Zeros(rows)]

\* lines 180-182: a new solver level with x and b sized to the new operator
AppendLevel(s) ==
    LET t == LevelsPushBack(s)
        n == Len(t.levels)
        rows == Back(t.sa_levels).A_.num_rows
    IN [t EXCEPT !.levels[n].x = Zeros(rows), !.levels[n].b = Zeros(rows)]

\* variant of setup_next_level: the solver-facing level is appended before
\* R, P and the residual buffer are stored, so they land on the new level
setup_next_level_TransferAfterAppend(m) ==
    LET s1 == AppendSaLevel(m.sa, m.fr)
    IN [m EXCEPT !.sa = StoreTransfer(AppendLevel(s1), m.fr),
                 !.reallocs = @ + (IF MustReallocate(s1) THEN 1 ELSE 0),
                 !.pc = IF m.fr.first THEN "L109" ELSE "L113",
                 !.fr = [EmptyFrame EXCEPT !.A = m.fr.A, !.B = m.fr.B]]

\* lines 171-183, and the return to the caller (line 109 or line 113)
setup_next_level(m) ==
    LET s1 == StoreTransfer(AppendSaLevel(m.sa, m.fr), m.fr)
    IN [m EXCEPT !.sa = AppendLevel(s1),
                 !.reallocs = @ + (IF MustReallocate(s1) THEN 1 ELSE 0),
                 !.pc = IF m.fr.first THEN "L109" ELSE "L113",
                 !.fr = [EmptyFrame EXCEPT !.A = m.fr.A, !.B = m.fr.B]]

\* ------------------------------------------------- sa_initialize, the rest
\* the level that line 109 assigns the smoother of the input operator to
FirstSmootherLevel(s) == Len(s.levels)

\* line 109: Parent::levels.back().smoother = SmootherType(A)
first_smoother(m) ==
    [m EXCEPT !.sa.levels[FirstSmootherLevel(m.sa)].smoother = SmootherType(m.fr.A),
              !.installs = @ \cup {"L109"},
              !.pc = "L113"]

\* the operator line 118 hands to the coarse solver
CoarseOperator(s) == Back(s.sa_levels).A_

\* line 118: Parent::solver = SolverType(sa_levels.back().A_)
coarse_solver(m) ==
    [m EXCEPT !.sa.solver = SolverType(CoarseOperator(m.sa)),
              !.installs = @ \cup {"L118"},
              !.pc = "L120", !.fr.lvl = 1]

\* the level (0-based lvl) that line 126 assigns the smoother to
SmootherLevel(s, lvl) == Len(s.levels)

\* lines 120-127, one iteration: the level's operator, then a smoother
level_loop_body(m) ==
    LET k == m.fr.lvl + 1
        moved == setup_level_matrix(m.sa.levels[k].A, m.sa.sa_levels[k].A_)
        s1 == [m.sa EXCEPT !.levels[k].A = moved[1], !.sa_levels[k].A_ = moved[2]]
    IN [m EXCEPT
            !.sa = [s1 EXCEPT !.levels[SmootherLevel(s1, m.fr.lvl)].smoother =
                                   SmootherType(s1.levels[k].A)],
            !.installs = @ \cup {"L126"},
            !.fr.lvl = @ + 1]

\* line 120: lvl < sa_levels.size()
LevelLoopContinues(m) == m.fr.lvl < Len(m.sa.sa_levels)

\* line 131: level 0's operator takes the caller's dimensions; return
final_resize(m) ==
    [m EXCEPT !.sa.levels[1].A = BaseResize(@, m.fr.A),
              !.pc = "done", !.fr.lvl = 0]

\* one step of a build in which no strategy fails
Step(m) ==
    CASE m.pc = "L104" -> first_level_test(m)
      [] m.pc = "L143" -> do_strength_of_connection(m)
      [] m.pc = "L148" -> do_aggregate(m)
      [] m.pc = "L156" -> do_fit_candidates(m)
      [] m.pc = "L159" -> do_smooth_prolongator(m)
      [] m.pc = "L164" -> do_form_restriction(m)
      [] m.pc = "L168" -> do_galerkin_product(m)
      [] m.pc = "L171" -> setup_next_level(m)
      [] m.pc = "L109" -> first_smoother(m)
      [] m.pc = "L113" -> coarsen_loop_test(m)
      [] m.pc = "L118" -> coarse_solver(m)
      [] m.pc = "L120" -> IF LevelLoopContinues(m) THEN level_loop_body(m)
                          ELSE [m EXCEPT !.pc = "L131"]
      [] m.pc = "L131" -> final_resize(m)
      [] OTHER -> m

RECURSIVE RunToCompletion(_)
RunToCompletion(m) ==
    IF m.pc \in {"done", "failed", "idle"} THEN m ELSE RunToCompletion(Step(m))

\* a fresh object on which only sa_initialize(A, B) is run
FreshMachine ==
    [sa |-> FreshObject, pc |-> "idle", fr |-> EmptyFrame, calls |-> <<>>,
     failure |-> "none", installs |-> {}, reallocs |-> 0]

FreshBuild(A, B) == RunToCompletion(sa_initialize_setup(FreshMachine, A, B))

\* ---------------------------------------------------------------- actions
Init ==
    /\ opts \in Options
    /\ sa = FreshObject
    /\ pc = "idle"
    /\ fr = EmptyFrame
    /\ calls = <<>>
    /\ failure = "none"
    /\ installs = {}
    /\ reallocs = 0
    /\ builds = 0

\* the caller calls sa_initialize(A, B) on a new object, or again on one
\* whose build completed or failed
SaInitialize ==
    /\ pc \in {"idle", "done", "failed"}
    /\ builds < MaxBuilds
    /\ \E A \in InputMatrices : \E B \in InputCandidates(A) :
          Set(sa_initialize_setup(Machine, A, B))
    /\ builds' = builds + 1
    /\ UNCHANGED opts

At(label) == pc = label /\ UNCHANGED <<opts, builds>>

FirstLevelTest == At("L104") /\ Set(first_level_test(Machine))

\* a strategy call: it returns, or it fails
Call(label, strategy, m) ==
    /\ At(label)
    /\ \E ok \in BOOLEAN : Set(IF ok THEN m ELSE Throw(Machine, strategy))

StrengthOfConnection ==
    Call("L143", "strength_of_connection", do_strength_of_connection(Machine))

Aggregate == Call("L148", "aggregate", do_aggregate(Machine))

FitCandidates == Call("L156", "fit_candidates", do_fit_candidates(Machine))

SmoothProlongator ==
    Call("L159", "smooth_prolongator", do_smooth_prolongator(Machine))

FormRestriction == Call("L164", "form_restriction", do_form_restriction(Machine))

GalerkinProduct == Call("L168", "galerkin_product", do_galerkin_product(Machine))

SetupNextLevel == At("L171") /\ Set(setup_next_level(Machine))

FirstSmoother == At("L109") /\ Set(first_smoother(Machine))

CoarsenLoopTest == At("L113") /\ Set(coarsen_loop_test(Machine))

CoarseSolver == At("L118") /\ Set(coarse_solver(Machine))

LevelLoop == At("L120") /\ Set(Step(Machine))

FinalResize == At("L131") /\ Set(final_resize(Machine))

Next ==
    \/ SaInitialize
    \/ FirstLevelTest
    \/ StrengthOfConnection
    \/ Aggregate
    \/ FitCandidates
    \/ SmoothProlongator
    \/ FormRestriction
    \/ GalerkinProduct
    \/ SetupNextLevel
    \/ FirstSmoother
    \/ CoarsenLoopTest
    \/ CoarseSolver
    \/ LevelLoop
    \/ FinalResize

Spec == Init /\ [][Next]_vars

\* ------------------------------------------------------------- properties
NumLevels == Len(sa.levels)

\* solver-facing level k, 0-based as in the source
Level(k) == sa.levels[k + 1]

SaLevel(k) == sa.sa_levels[k + 1]

\* rows of the operator of level k of a completed build: the caller's
\* operator at level 0, the solver-facing operator below it
Rows(k) == IF k = 0 THEN fr.A.num_rows ELSE Level(k).A.num_rows

\* C1: during and after sa_initialize the number of level records and of
\* solver-facing levels never exceeds max_levels, and no append to the
\* solver-facing levels outgrows the capacity reserved for max_levels.
C1_LevelsWithinMaxLevels ==
    /\ Len(sa.sa_levels) <= opts.max_levels
    /\ Len(sa.levels) <= opts.max_levels
    /\ reallocs = 0

\* C2: after sa_initialize completes, every level k with 1 <= k < n holds a
\* smoother constructed from that level's own operator Parent::levels[k].A.
C2_EveryLevelOwnSmoother ==
    pc = "done" =>
        \A k \in 1..(NumLevels - 1) : Level(k).smoother = SmootherType(Level(k).A)

\* C3: whenever rows(A0) > min_level_size, after sa_initialize completes
\* level 0 holds a smoother constructed from the input operator A0.
C3_LevelZeroSmoother ==
    (pc = "done" /\ fr.A.num_rows > opts.min_level_size) =>
        Level(0).smoother = SmootherType(fr.A)

\* C4: after sa_initialize completes the coarse solver is constructed from
\* the operator of the last level: A0 itself when the hierarchy has one
\* level, the coarsest Galerkin product otherwise.
C4_CoarseSolverOnLastOperator ==
    pc = "done" =>
        /\ sa.solver.bound
        /\ Content(sa.solver.A) =
               IF NumLevels = 1 THEN Content(fr.A)
               ELSE Content(Level(NumLevels - 1).A)

\* C5: on completion the newest operator has rows <= min_level_size or the
\* level count equals max_levels, and extend_hierarchy is never entered
\* with an operator of rows <= min_level_size or with max_levels levels.
C5_StopsAtFirstFailedTest ==
    /\ pc = "done" =>
           \/ Rows(NumLevels - 1) <= opts.min_level_size
           \/ Len(sa.sa_levels) = opts.max_levels
    /\ pc = "L143" =>
           /\ fr.curA.num_rows > opts.min_level_size
           /\ Len(sa.sa_levels) < opts.max_levels

\* C6: if rows(A0) <= min_level_size the build has exactly one level
\* record and one solver-facing level at every point, and invokes no
\* strategy, whatever max_levels is.
C6_DegenerateInput ==
    (builds > 0 /\ fr.A.num_rows <= opts.min_level_size) =>
        /\ Len(sa.sa_levels) = 1
        /\ Len(sa.levels) = 1
        /\ calls = <<>>
        /\ pc # "failed"

C6_Witness ==
    /\ pc = "done"
    /\ fr.A.num_rows <= opts.min_level_size
    /\ fr.A.num_rows > 0
    /\ opts.max_levels > 1
    /\ calls = <<>>

\* what a build leaves on the object for the solver and for later calls;
\* the capacity of the level sequence is storage, not content
Observable(s) == [s EXCEPT !.capacity = 0]

\* C7: a sa_initialize(A', B') that completes on an object already built
\* (or left behind by a failed build) leaves level records, solver-facing
\* levels, dimensions and coarse solver identical to those of a fresh
\* object on which only sa_initialize(A', B') was run.
C7_IdempotentReset ==
    (builds >= 2 /\ pc = "done") =>
        Observable(sa) = Observable(FreshBuild(fr.A, fr.B).sa)

C7_Witness ==
    /\ builds >= 2
    /\ pc = "done"
    /\ NumLevels = 3
    /\ fr.A.src = 2
    /\ ~opts.same_format
    /\ Observable(sa) = Observable(FreshBuild(fr.A, fr.B).sa)

\* C8 as claimed: after sa_initialize completes, the x and b buffers of
\* every level k, level 0 included, have length rows(A_k).
C8_AllLevelsSized ==
    pc = "done" =>
        \A k \in 0..(NumLevels - 1) :
            Len(Level(k).x) = Rows(k) /\ Len(Level(k).b) = Rows(k)

\* C8 as amended: after sa_initialize completes, the x and b buffers of
\* every level k >= 1 have length rows(A_k); those of level 0 are never
\* sized and have length 0.
C8_CoarseLevelsSized ==
    pc = "done" =>
        /\ \A k \in 1..(NumLevels - 1) :
              Len(Level(k).x) = Rows(k) /\ Len(Level(k).b) = Rows(k)
        /\ Len(Level(0).x) = 0
        /\ Len(Level(0).b) = 0

C8_Witness ==
    /\ pc = "done"
    /\ NumLevels = 3
    /\ Rows(0) > Rows(1)
    /\ Rows(1) > Rows(2)
    /\ Len(Level(1).x) = Rows(1)
    /\ Len(Level(2).b) = Rows(2)
    /\ Len(Level(0).x) = 0

\* C9: after sa_initialize completes, for every coarsened level k:
\* rows(R_k) = cols(P_k) = rows(A_{k+1}), cols(R_k) = rows(P_k) = rows(A_k),
\* and the aggregate map and the candidate vector B on level record k
\* have length rows(A_k).
C9_DimensionChain ==
    pc = "done" =>
        \A k \in 0..(NumLevels - 2) :
            /\ Level(k).R.num_rows = Level(k).P.num_cols
            /\ Level(k).P.num_cols = Rows(k + 1)
            /\ Level(k).R.num_cols = Level(k).P.num_rows
            /\ Level(k).P.num_rows = Rows(k)
            /\ Len(SaLevel(k).aggregates) = Rows(k)
            /\ Len(SaLevel(k).B) = Rows(k)

C9_Witness ==
    /\ pc = "done"
    /\ NumLevels = 3
    /\ Rows(0) = 4
    /\ Rows(1) = 2
    /\ Level(1).R.num_rows = 1
    /\ Level(1).R.num_cols = 2
    /\ Len(SaLevel(1).aggregates) = 2

StrategyOrder ==
    << "strength_of_connection", "aggregate", "fit_candidates",
       "smooth_prolongator", "form_restriction", "galerkin_product" >>

NumStrategies == Len(StrategyOrder)

\* invocations of a strategy by the current build
Invocations(strategy) ==
    Cardinality({ i \in 1..Len(calls) : calls[i] = strategy })

\* coarsening steps of the current build that have appended their level
CompletedSteps ==
    IF pc = "L171" THEN (Len(calls) \div NumStrategies) - 1
    ELSE IF failure # "none" THEN (Len(calls) - 1) \div NumStrategies
    ELSE Len(calls) \div NumStrategies

\* C11: in every coarsening step the six strategies are invoked once each
\* in the order strength_of_connection, aggregate, fit_candidates,
\* smooth_prolongator, form_restriction, galerkin_product; the aggregates
\* array is all zeros of length rows(C) when aggregate is called; a level
\* record and a solver-facing level are appended only after galerkin_product
\* has returned, so on completion each strategy was invoked (levels - 1) times.
C11_StrategyOrder ==
    /\ \A i \in 1..Len(calls) :
          calls[i] = StrategyOrder[((i - 1) % NumStrategies) + 1]
    /\ pc = "L148" =>
          /\ Len(fr.aggregates) = fr.C.num_rows
          /\ \A i \in 1..Len(fr.aggregates) : fr.aggregates[i] = 0
    /\ builds > 0 =>
          /\ Len(sa.sa_levels) - 1 = CompletedSteps
          /\ Len(sa.levels) - 1 = CompletedSteps
    /\ pc = "done" =>
          \A i \in 1..NumStrategies :
              Invocations(StrategyOrder[i]) = NumLevels - 1

C11_Witness ==
    /\ pc = "L148"
    /\ Len(calls) = NumStrategies + 1
    /\ NumLevels = 2
    /\ fr.C.num_rows = 2
    /\ fr.aggregates = <<0, 0>>

\* C12: from the initial setup of sa_initialize on, between coarsening steps
\* and on completion (also in a second build on the same object), there are
\* as many level records as solver-facing levels, at least one; the end of
\* an extend_hierarchy call adds exactly one of each and no other step adds
\* or removes any; and the R, P and residual buffer of the step are on the
\* solver-facing level that was last before the append, the new level
\* holding none.
C12_LevelCorrespondence ==
    [][/\ builds' > 0 =>
             /\ Len(sa'.sa_levels) = Len(sa'.levels)
             /\ Len(sa'.levels) >= 1
       /\ pc = "L171" =>
             LET n == Len(sa.levels)
             IN /\ Len(sa'.sa_levels) = Len(sa.sa_levels) + 1
                /\ Len(sa'.levels) = n + 1
                /\ Content(sa'.levels[n].R) = Content(fr.R)
                /\ Content(sa'.levels[n].P) = Content(fr.P)
                /\ Len(sa'.levels[n].residual) = fr.curA.num_rows
                /\ sa'.levels[n + 1].R = EmptyMatrix(SolveFormat)
                /\ sa'.levels[n + 1].P = EmptyMatrix(SolveFormat)
                /\ sa'.levels[n + 1].residual = <<>>
                /\ \A k \in 1..(n - 1) : sa'.levels[k] = sa.levels[k]
       /\ pc \notin {"L171", "idle", "done", "failed"} =>
             /\ Len(sa'.sa_levels) = Len(sa.sa_levels)
             /\ Len(sa'.levels) = Len(sa.levels)]_vars

C12_Witness ==
    /\ builds = 2
    /\ pc = "L113"
    /\ NumLevels = 3
    /\ Len(sa.sa_levels) = 3
    /\ Level(1).R.kind = "R"
    /\ Level(1).R.gen = 1
    /\ Level(1).P.kind = "P"
    /\ Len(Level(1).residual) = 2
    /\ Level(2).R.kind = "empty"
    /\ Level(2).residual = <<>>

====
